---- MODULE Spec2Model ----
(***************************************************************************)
(* A model of change_task_description.py: the task-input parser            *)
(* (parse_task_input), the two record rewriters (update_episodes_jsonl,    *)
(* update_tasks_jsonl) and the orchestrator (change_task_description with  *)
(* the __main__ wrapper that turns any exception into exit code 1).        *)
(*                                                                         *)
(* Text is modelled as text: a Python str is a sequence of one-character   *)
(* strings, a line of a .jsonl file is a sequence of JSON tokens, and      *)
(* strip, split, ast.literal_eval, json.loads and json.dumps are computed  *)
(* on those sequences.                                                     *)
(***************************************************************************)
EXTENDS Integers, Sequences, FiniteSets, TLC

\* Bounds of the model.
MaxLines == 2
MaxRuns == 2
MaxLen == 5

(***************************************************************************)
(* Python str helpers.                                                     *)
(***************************************************************************)
Range(s) == {s[i] : i \in 1..Len(s)}

RECURSIVE LStrip(_)
LStrip(s) ==
  IF Len(s) > 0 /\ s[1] = " " THEN LStrip(Tail(s)) ELSE s

RECURSIVE RStrip(_)
RStrip(s) ==
  IF Len(s) > 0 /\ s[Len(s)] = " " THEN RStrip(SubSeq(s, 1, Len(s) - 1)) ELSE s

\* str.strip(): the only whitespace character of the model's alphabet is " ".
Strip(s) == RStrip(LStrip(s))

StartsWith(s, c) == Len(s) > 0 /\ s[1] = c

EndsWith(s, c) == Len(s) > 0 /\ s[Len(s)] = c

\* str.split(sep): "a,,b" gives ["a", "", "b"], "" gives [""].
RECURSIVE SplitFrom(_, _, _)
SplitFrom(s, sep, cur) ==
  IF Len(s) = 0 THEN <<cur>>
  ELSE IF s[1] = sep THEN <<cur>> \o SplitFrom(Tail(s), sep, <<>>)
  ELSE SplitFrom(Tail(s), sep, Append(cur, s[1]))

Split(s, sep) == SplitFrom(s, sep, <<>>)

(***************************************************************************)
(* ast.literal_eval on the fragment of Python the alphabet can spell:      *)
(* string literals in double quotes (adjacent literals concatenate), names *)
(* made of the letters a and c (no string prefix, no keyword), list        *)
(* displays, set and dict displays in braces, subscripts, and a tuple at   *)
(* the top level.  The outcome is a value or the exception raised:         *)
(* SyntaxError from the parse, ValueError for a node that is no literal    *)
(* (a name, a subscript), TypeError when a set display holds an unhashable *)
(* element.  Conversion runs left to right and the first exception wins.   *)
(***************************************************************************)
Letters == {"a", "c"}

Quote == "\""

PyValue(kind, str, elts) == [k |-> kind, s |-> str, l |-> elts]
PyStr(str) == PyValue("str", str, <<>>)
PyNone == PyValue("none", <<>>, <<>>)

Good(v) == [exc |-> "none", val |-> v]
Raise(e) == [exc |-> e, val |-> PyNone]

Parsed(p, o) == [ok |-> TRUE, pos |-> p, out |-> o, outs |-> <<>>]
ParsedElts(p, os) == [ok |-> TRUE, pos |-> p, out |-> Raise("none"), outs |-> os]
NoParse == [ok |-> FALSE, pos |-> 0, out |-> Raise("SyntaxError"), outs |-> <<>>]

RECURSIVE SkipWs(_, _)
SkipWs(s, i) ==
  IF i <= Len(s) /\ s[i] = " " THEN SkipWs(s, i + 1) ELSE i

At(s, i, c) == i \in 1..Len(s) /\ s[i] = c

\* The index of the quote closing a string literal opened before j, or 0.
RECURSIVE CloseQuote(_, _)
CloseQuote(s, j) ==
  IF j > Len(s) THEN 0
  ELSE IF s[j] = Quote THEN j
  ELSE CloseQuote(s, j + 1)

\* The index of the first of the three quotes closing a triple-quoted
\* literal, searched from j, or 0.
RECURSIVE CloseTriple(_, _)
CloseTriple(s, j) ==
  IF j + 2 > Len(s) THEN 0
  ELSE IF s[j] = Quote /\ s[j + 1] = Quote /\ s[j + 2] = Quote THEN j
  ELSE CloseTriple(s, j + 1)

IsTriple(s, i) == At(s, i, Quote) /\ At(s, i + 1, Quote) /\ At(s, i + 2, Quote)

\* One string literal at i: [first, last] are the indices of its content,
\* next the index after the literal; ok is FALSE when it is unterminated.
Literal(first, close, width) ==
  [ok |-> close # 0, first |-> first, last |-> close - 1, next |-> close + width]

StringLiteral(s, i) ==
  IF IsTriple(s, i) THEN Literal(i + 3, CloseTriple(s, i + 3), 3)
  ELSE Literal(i + 1, CloseQuote(s, i + 1), 1)

RECURSIVE ParseStrings(_, _, _)

StringsNext(s, next, k, str) ==
  IF At(s, k, Quote) THEN ParseStrings(s, k, str)
  ELSE Parsed(next, Good(PyStr(str)))

StringsAfter(s, lit, acc) ==
  IF ~lit.ok THEN NoParse
  ELSE StringsNext(s, lit.next, SkipWs(s, lit.next), acc \o SubSeq(s, lit.first, lit.last))

\* STRING+ : one or more adjacent string literals, concatenated.
ParseStrings(s, i, acc) == StringsAfter(s, StringLiteral(s, i), acc)

RECURSIVE NameEnd(_, _)
NameEnd(s, i) ==
  IF i <= Len(s) /\ s[i] \in Letters THEN NameEnd(s, i + 1) ELSE i

RECURSIVE FirstRaised(_, _)
FirstRaised(outs, i) ==
  IF i > Len(outs) THEN 0
  ELSE IF outs[i].exc # "none" THEN i
  ELSE FirstRaised(outs, i + 1)

RaisedAt(kind, outs, i) ==
  IF i # 0 THEN Raise(outs[i].exc)
  ELSE Good(PyValue(kind, <<>>, [j \in 1..Len(outs) |-> outs[j].val]))

\* list(map(_convert, node.elts)) and tuple(map(_convert, node.elts))
SeqOutcome(kind, outs) == RaisedAt(kind, outs, FirstRaised(outs, 1))

Hashable(v) == v.k \in {"str", "tuple"}

\* set(map(_convert, node.elts)): each element is converted, then hashed,
\* before the next one is converted.
RECURSIVE SetOutcome(_, _)
SetOutcome(outs, i) ==
  IF i > Len(outs) THEN Good(PyValue("set", <<>>, <<>>))
  ELSE IF outs[i].exc # "none" THEN Raise(outs[i].exc)
  ELSE IF ~Hashable(outs[i].val) THEN Raise("TypeError")
  ELSE SetOutcome(outs, i + 1)

RECURSIVE ParseExpr(_, _)
RECURSIVE ParseElts(_, _, _, _)
RECURSIVE ParseTrailers(_, _)

\* A list display, or a display in braces: {} is a dict, {x, ...} a set.
Display(open, e) ==
  IF ~e.ok THEN NoParse
  ELSE IF open = "[" THEN Parsed(e.pos, SeqOutcome("list", e.outs))
  ELSE IF Len(e.outs) = 0 THEN Parsed(e.pos, Good(PyValue("dict", <<>>, <<>>)))
  ELSE Parsed(e.pos, SetOutcome(e.outs, 1))

Closer(open) == IF open = "[" THEN "]" ELSE "}"

\* atom: STRING+ | NAME | '[' [elts] ']' | '{' [elts] '}'
ParseAtom(s, i) ==
  IF i > Len(s) THEN NoParse
  ELSE IF s[i] = Quote THEN ParseStrings(s, i, <<>>)
  ELSE IF s[i] \in Letters THEN Parsed(NameEnd(s, i), Raise("ValueError"))
  ELSE IF s[i] \in {"[", "{"} THEN Display(s[i], ParseElts(s, i + 1, Closer(s[i]), <<>>))
  ELSE NoParse

\* A Subscript node is no literal, and its children are never converted.
Subscript(s, sub) ==
  IF ~sub.ok \/ Len(sub.outs) = 0 THEN NoParse
  ELSE ParseTrailers(s, Parsed(sub.pos, Raise("ValueError")))

TrailersAt(s, r, k) ==
  IF At(s, k, "[") THEN Subscript(s, ParseElts(s, k + 1, "]", <<>>)) ELSE r

\* primary: atom ('[' subscript ']')*
ParseTrailers(s, r) ==
  IF ~r.ok THEN NoParse ELSE TrailersAt(s, r, SkipWs(s, r.pos))

ParseExpr(s, i) == ParseTrailers(s, ParseAtom(s, i))

\* The closing bracket, or with close = "" the end of the input.
AtClose(s, j, close) == IF close = "" THEN j > Len(s) ELSE At(s, j, close)

EltsSep(s, k, close, acc) ==
  IF At(s, k, ",") THEN ParseElts(s, k + 1, close, acc)
  ELSE IF AtClose(s, k, close) THEN ParsedElts(k + 1, acc)
  ELSE NoParse

EltsAfter(s, e, close, acc) ==
  IF ~e.ok THEN NoParse
  ELSE EltsSep(s, SkipWs(s, e.pos), close, Append(acc, e.out))

EltsAt(s, j, close, acc) ==
  IF AtClose(s, j, close) THEN ParsedElts(j + 1, acc)
  ELSE EltsAfter(s, ParseExpr(s, j), close, acc)

\* [expr (',' expr)* [',']] up to the closing bracket.
ParseElts(s, i, close, acc) == EltsAt(s, SkipWs(s, i), close, acc)

TupleOf(t) ==
  IF t.ok THEN Parsed(t.pos, SeqOutcome("tuple", t.outs)) ELSE NoParse

TopSep(s, e, k) ==
  IF k > Len(s) THEN e
  ELSE IF At(s, k, ",") THEN TupleOf(ParseElts(s, k + 1, "", <<e.out>>))
  ELSE NoParse

TopAfter(s, e) ==
  IF ~e.ok THEN NoParse ELSE TopSep(s, e, SkipWs(s, e.pos))

\* eval_input: expr (',' expr)* [','] ENDMARKER ; a comma makes a tuple.
ParseTop(s) == TopAfter(s, ParseExpr(s, SkipWs(s, 1)))

Evaluated(p) == IF p.ok THEN p.out ELSE Raise("SyntaxError")

literal_eval(s) == Evaluated(ParseTop(s))

\* isinstance(tasks, list) and all(isinstance(t, str) for t in tasks)
IsListOfStr(v) == v.k = "list" /\ \A i \in 1..Len(v.l) : v.l[i].k = "str"

(***************************************************************************)
(* parse_task_input                                                        *)
(***************************************************************************)
Returned(ts) == [exc |-> "none", tasks |-> ts]
Raised(e) == [exc |-> e, tasks |-> <<>>]

StripAll(pieces) == [i \in 1..Len(pieces) |-> Strip(pieces[i])]

KeepEmpty(pieces) == pieces

\* [task for task in tasks if task]
DropEmpty(pieces) == SelectSeq(pieces, LAMBDA p : Len(p) > 0)

\* The comma-separated list and the single task.
Fallback(t) ==
  IF "," \in Range(t) THEN Returned(DropEmpty(StripAll(Split(t, ","))))
  ELSE Returned(<<t>>)

\* After ast.literal_eval: ValueError and SyntaxError are caught and passed
\* over, any other exception leaves the function.
AfterLiteral(t, lit) ==
  IF lit.exc = "TypeError" THEN Raised("TypeError")
  ELSE IF lit.exc = "none" /\ IsListOfStr(lit.val)
    THEN Returned([i \in 1..Len(lit.val.l) |-> lit.val.l[i].s])
  ELSE Fallback(t)

Stripped(t) ==
  IF StartsWith(t, "[") /\ EndsWith(t, "]") THEN AfterLiteral(t, literal_eval(t))
  ELSE Fallback(t)

parse_task_input(input) == Stripped(Strip(input))

(***************************************************************************)
(* JSON text.  A line of a .jsonl file is a sequence of tokens: the        *)
(* punctuation "{", "}", ",", the whitespace " ", and "kv", one            *)
(* `"key": value` member holding its key and its value.  A parsed record   *)
(* is a Python dict: members in insertion order, keys unique.              *)
(***************************************************************************)
JValue(type, int, str, list) == [t |-> type, i |-> int, s |-> str, l |-> list]
JInt(n) == JValue("int", n, <<>>, <<>>)
JStr(str) == JValue("str", 0, str, <<>>)
JList(strs) == JValue("list", 0, <<>>, strs)
JNull == JValue("null", 0, <<>>, <<>>)

Tok(c) == [c |-> c, k |-> "", v |-> JNull]
KV(key, val) == [c |-> "kv", k |-> key, v |-> val]
Member(key, val) == [k |-> key, v |-> val]

Keys(rec) == {rec[i].k : i \in 1..Len(rec)}

Get(rec, key) == rec[CHOOSE i \in 1..Len(rec) : rec[i].k = key].v

\* d[key] = val with dict.update semantics: merging lists instead of replacing.
PutMerge(rec, key, val) ==
  IF key \in Keys(rec)
    THEN [i \in 1..Len(rec) |->
            IF rec[i].k = key /\ rec[i].v.t = "list" /\ val.t = "list"
              THEN Member(key, JList(rec[i].v.l \o val.l))
              ELSE IF rec[i].k = key THEN Member(key, val) ELSE rec[i]]
    ELSE Append(rec, Member(key, val))

\* d[key] = val: an existing key keeps its place and takes the new value,
\* a new key goes last.
Put(rec, key, val) ==
  IF key \in Keys(rec)
    THEN [i \in 1..Len(rec) |-> IF rec[i].k = key THEN Member(key, val) ELSE rec[i]]
    ELSE Append(rec, Member(key, val))

IsTok(s, i, c) == i \in 1..Len(s) /\ s[i].c = c

RECURSIVE SkipSpace(_, _)
SkipSpace(s, i) ==
  IF IsTok(s, i, " ") THEN SkipSpace(s, i + 1) ELSE i

RECURSIVE LStripLine(_)
LStripLine(s) ==
  IF IsTok(s, 1, " ") THEN LStripLine(Tail(s)) ELSE s

RECURSIVE RStripLine(_)
RStripLine(s) ==
  IF IsTok(s, Len(s), " ") THEN RStripLine(SubSeq(s, 1, Len(s) - 1)) ELSE s

\* line.strip()
StripLine(s) == RStripLine(LStripLine(s))

Decoded(rec) == [ok |-> TRUE, rec |-> rec]
JSONDecodeError == [ok |-> FALSE, rec |-> <<>>]

\* The members of an object after its "{": kv ("," kv)* "}", then only
\* whitespace up to the end of the text.
RECURSIVE LoadMembers(_, _, _)
LoadMembers(s, i, acc) ==
  IF ~IsTok(s, i, "kv") THEN JSONDecodeError
  ELSE LET rec == Put(acc, s[i].k, s[i].v)
           j == SkipSpace(s, i + 1)
       IN  IF IsTok(s, j, ",") THEN LoadMembers(s, SkipSpace(s, j + 1), rec)
           ELSE IF IsTok(s, j, "}") /\ SkipSpace(s, j + 1) > Len(s) THEN Decoded(rec)
           ELSE JSONDecodeError

\* json.loads(text) for a text that holds an object; anything else, the
\* empty text included, raises JSONDecodeError.
JsonLoads(s) ==
  LET i == SkipSpace(s, 1)
      j == SkipSpace(s, i + 1)
  IN  IF ~IsTok(s, i, "{") THEN JSONDecodeError
      ELSE IF IsTok(s, j, "}")
        THEN (IF SkipSpace(s, j + 1) > Len(s) THEN Decoded(<<>>) ELSE JSONDecodeError)
      ELSE LoadMembers(s, j, <<>>)

RECURSIVE DumpMembers(_, _)
DumpMembers(rec, i) ==
  IF i > Len(rec) THEN <<>>
  ELSE (IF i > 1 THEN <<Tok(","), Tok(" ")>> ELSE <<>>)
       \o <<KV(rec[i].k, rec[i].v)>> \o DumpMembers(rec, i + 1)

\* json.dumps(record): members in dict order, ", " between them.
JsonDumps(rec) == <<Tok("{")>> \o DumpMembers(rec, 1) \o <<Tok("}")>>

(***************************************************************************)
(* Paths and files.                                                        *)
(***************************************************************************)
Path(parent, stem, suffix) == [parent |-> parent, stem |-> stem, suffix |-> suffix]

dataset_path == Path("", "dataset", "")
meta_dir == Path("dataset", "meta", "")
episodes_file == Path("dataset/meta", "episodes", ".jsonl")
tasks_file == Path("dataset/meta", "tasks", ".jsonl")

\* Path.with_suffix: the final suffix is replaced.
with_suffix(p, suffix) == [p EXCEPT !.suffix = suffix]

BackupOf(p) == with_suffix(p, ".jsonl.backup")

Targets == {episodes_file, tasks_file}
Files == Targets \cup {BackupOf(p) : p \in Targets}

File(lines) == [exists |-> TRUE, lines |-> lines]
NoFile == [exists |-> FALSE, lines |-> <<>>]

\* shutil.copy2 that refuses to replace an existing destination.
Copy2NoClobber(src, dst) == IF dst.exists THEN dst ELSE src

\* shutil.copy2 that creates the destination but copies nothing.
Copy2Empty(src, dst) == File(<<>>)

\* shutil.copy2(src, dst): the destination, created or replaced, holds the
\* bytes of the source.
Copy2(src, dst) == src

(***************************************************************************)
(* The rewriters' read loops and write loops.                              *)
(***************************************************************************)
ReadOk(recs) == [ok |-> TRUE, records |-> recs]
ReadFailed == [ok |-> FALSE, records |-> <<>>]

MergeTasks(rec, new_tasks) == PutMerge(rec, "tasks", JList(new_tasks))

\* episode['tasks'] = new_tasks
SetTasks(rec, new_tasks) == Put(rec, "tasks", JList(new_tasks))

LastTask(new_tasks) ==
  IF Len(new_tasks) > 0 THEN new_tasks[Len(new_tasks)] ELSE <<>>

\* new_tasks[0] if new_tasks else ""
FirstTask(new_tasks) ==
  IF Len(new_tasks) > 0 THEN new_tasks[1] ELSE <<>>

\* task['task'] = new_tasks[0] if new_tasks else ""
SetTask(rec, new_tasks) == Put(rec, "task", JStr(FirstTask(new_tasks)))

\* A read loop that skips the lines it cannot parse.
ReadEpisodesLenient(lines, new_tasks) ==
  LET good == SelectSeq(lines, LAMBDA l : JsonLoads(StripLine(l)).ok)
  IN  ReadOk([i \in 1..Len(good) |->
                SetTasks(JsonLoads(StripLine(good[i])).rec, new_tasks)])

\* update_episodes_jsonl, the read loop: every line is parsed, blank or not,
\* and the first line that fails to parse raises.
ReadEpisodes(lines, new_tasks) ==
  IF \E i \in 1..Len(lines) : ~JsonLoads(StripLine(lines[i])).ok
    THEN ReadFailed
    ELSE ReadOk([i \in 1..Len(lines) |->
                   SetTasks(JsonLoads(StripLine(lines[i])).rec, new_tasks)])

\* update_tasks_jsonl, the read loop: a line that is empty once stripped is
\* skipped, every other line is parsed.
ReadTasks(lines, new_tasks) ==
  LET kept == SelectSeq([i \in 1..Len(lines) |-> StripLine(lines[i])],
                        LAMBDA l : Len(l) > 0)
  IN  IF \E i \in 1..Len(kept) : ~JsonLoads(kept[i]).ok
        THEN ReadFailed
        ELSE ReadOk([i \in 1..Len(kept) |->
                       SetTask(JsonLoads(kept[i]).rec, new_tasks)])

\* f.write(json.dumps(record) + '\n') for every record
WriteLines(recs) == [i \in 1..Len(recs) |-> JsonDumps(recs[i])]

(***************************************************************************)
(* State.                                                                  *)
(***************************************************************************)
VARIABLES
  dir_exists,     \* the dataset directory exists
  meta_exists,    \* its meta subdirectory exists
  fs,             \* the four files under meta: path -> [exists, lines]
  pc,             \* where the process is: idle, validate, read, backup, write, done, exit
  call,           \* which of the orchestrator's two rewriter calls is running
  new_tasks,      \* the new_tasks argument: a str or a list of str
  create_backup,  \* the --backup flag
  parsed_tasks,   \* the resolved task sequence
  records,        \* the rewriter's local list (episodes / tasks)
  exit_code,      \* the process's exit code, -1 while it runs
  error,          \* the exception __main__ caught
  io_log,         \* history: the file operations of the current run, in order
  hist,           \* history: the files before the first run and after each complete run
  task_input,     \* parser harness: the argument of parse_task_input
  result          \* parser harness: what the call returned or raised

vars == <<dir_exists, meta_exists, fs, pc, call, new_tasks, create_backup,
          parsed_tasks, records, exit_code, error, io_log, hist,
          task_input, result>>

fsvars == <<dir_exists, meta_exists, fs>>
harness == <<task_input, result>>

(***************************************************************************)
(* The datasets and arguments the model starts from.                       *)
(***************************************************************************)
\* {"episode_index": 0, "tasks": ["a"]} exactly as json.dumps writes it
EpisodeCanonical ==
  <<Tok("{"), KV("episode_index", JInt(0)), Tok(","), Tok(" "),
    KV("tasks", JList(<< <<"a">> >>)), Tok("}")>>

\* ' {"tasks":["c","c"],"episode_index":1,"episode_index":2} ' : padded,
\* compact, tasks first, a repeated key
EpisodeCompact ==
  <<Tok(" "), Tok("{"), KV("tasks", JList(<< <<"c">>, <<"c">> >>)), Tok(","),
    KV("episode_index", JInt(1)), Tok(","), KV("episode_index", JInt(2)),
    Tok("}"), Tok(" ")>>

\* {"episode_index": 0   (cut short)
EpisodeMalformed == <<Tok("{"), KV("episode_index", JInt(0))>>

BlankLine == <<>>

\* {"task": "c","task_index":1 }
TaskCompact ==
  <<Tok("{"), KV("task", JStr(<<"c">>)), Tok(","), KV("task_index", JInt(1)),
    Tok(" "), Tok("}")>>

\* {"task_index": 0, "task": "a"} exactly as json.dumps writes it
TaskCanonical ==
  <<Tok("{"), KV("task_index", JInt(0)), Tok(","), Tok(" "),
    KV("task", JStr(<<"a">>)), Tok("}")>>

\* "task_index": 0}   (cut short)
TaskMalformed == <<KV("task_index", JInt(0)), Tok("}")>>

EpisodeLines == {EpisodeCanonical, EpisodeCompact, BlankLine, EpisodeMalformed}
TaskLines == {TaskCanonical, TaskCompact, BlankLine, TaskMalformed}

Contents(lines) == UNION {[1..n -> lines] : n \in 0..MaxLines}

Text(s) == [isstr |-> TRUE, text |-> s, list |-> <<>>]
ListArg(l) == [isstr |-> FALSE, text |-> <<>>, list |-> l]

\* a   ,   ["c","a"]   [{[]}]   and the list ["c"] passed as a list
Arguments ==
  { Text(<<"a">>),
    Text(<<",">>),
    Text(<<"[", Quote, "c", Quote, ",", Quote, "a", Quote, "]">>),
    Text(<<"[", "{", "[", "]", "}", "]">>),
    ListArg(<< <<"c">> >>) }

NoError == [type |-> "none", path |-> dataset_path]
Error(type, path) == [type |-> type, path |-> path]

Snapshot(files, flag) == [fs |-> files, backup |-> flag]

Idle ==
  /\ pc = "idle" /\ call = 0
  /\ new_tasks = ListArg(<<>>) /\ create_backup = FALSE
  /\ parsed_tasks = <<>> /\ records = <<>>
  /\ exit_code = -1 /\ error = NoError
  /\ io_log = <<>>

Pending == [exc |-> "pending", tasks |-> <<>>]

Init ==
  /\ dir_exists \in BOOLEAN
  /\ meta_exists \in BOOLEAN
  /\ meta_exists => dir_exists
  /\ \E e \in {NoFile} \cup {File(c) : c \in Contents(EpisodeLines)},
        t \in {NoFile} \cup {File(c) : c \in Contents(TaskLines)} :
       /\ (~meta_exists => e = NoFile /\ t = NoFile)
       /\ fs = [p \in Files |-> IF p = episodes_file THEN e
                                ELSE IF p = tasks_file THEN t ELSE NoFile]
  /\ hist = <<Snapshot(fs, FALSE)>>
  /\ Idle
  /\ task_input = <<>> /\ result = Pending

(***************************************************************************)
(* change_task_description and __main__.                                   *)
(***************************************************************************)
Exists(p) ==
  IF p = dataset_path THEN dir_exists
  ELSE IF p = meta_dir THEN meta_exists
  ELSE fs[p].exists

\* The same checks with the two file checks in the other order.
LayoutErrorTasksFirst ==
  IF ~Exists(dataset_path) THEN Error("FileNotFoundError", dataset_path)
  ELSE IF ~Exists(meta_dir) THEN Error("FileNotFoundError", meta_dir)
  ELSE IF ~Exists(tasks_file) THEN Error("FileNotFoundError", tasks_file)
  ELSE IF ~Exists(episodes_file) THEN Error("FileNotFoundError", episodes_file)
  ELSE NoError

\* The four existence checks, in the order of the code.
LayoutError ==
  IF ~Exists(dataset_path) THEN Error("FileNotFoundError", dataset_path)
  ELSE IF ~Exists(meta_dir) THEN Error("FileNotFoundError", meta_dir)
  ELSE IF ~Exists(episodes_file) THEN Error("FileNotFoundError", episodes_file)
  ELSE IF ~Exists(tasks_file) THEN Error("FileNotFoundError", tasks_file)
  ELSE NoError

RewriteOrderTasksFirst == <<"tasks", "episodes">>

\* update_episodes_jsonl(...) then update_tasks_jsonl(...)
RewriteOrder == <<"episodes", "tasks">>

Current == IF call \in 1..Len(RewriteOrder) THEN RewriteOrder[call] ELSE "none"

Runs == Len(hist) - 1

\* __main__: any exception is printed and the process exits with code 1.
Abort(e) ==
  /\ pc' = "exit"
  /\ exit_code' = 1
  /\ error' = e

\* argparse has read dataset_dir, new_tasks and --backup, and __main__ calls
\* change_task_description.
Launch(arg, flag) ==
  /\ pc' = "validate"
  /\ call' = 0
  /\ new_tasks' = arg
  /\ create_backup' = flag
  /\ parsed_tasks' = <<>>
  /\ records' = <<>>
  /\ exit_code' = -1
  /\ error' = NoError
  /\ io_log' = <<>>
  /\ UNCHANGED <<fsvars, hist, harness>>

\* The shell runs the script.
Start(arg, flag) == pc = "idle" /\ Launch(arg, flag)

\* The shell runs the script again on the same dataset, after a run that
\* succeeded.
Rerun(arg, flag) == pc = "done" /\ Runs < MaxRuns /\ Launch(arg, flag)

\* Resolving new_tasks: a str is parsed, a list is taken as it is.
Resolve(arg) ==
  IF arg.isstr THEN parse_task_input(arg.text) ELSE Returned(arg.list)

Validated(layout, resolved) ==
  IF layout # NoError
    THEN Abort(layout) /\ UNCHANGED <<call, parsed_tasks>>
  ELSE IF resolved.exc # "none"
    THEN Abort(Error(resolved.exc, dataset_path)) /\ UNCHANGED <<call, parsed_tasks>>
  ELSE /\ parsed_tasks' = resolved.tasks
       /\ call' = 1
       /\ pc' = "read"
       /\ UNCHANGED <<exit_code, error>>

\* change_task_description up to its first rewriter call: the layout checks
\* and the resolution of the task sequence.
Validate ==
  /\ pc = "validate"
  /\ Validated(LayoutError, Resolve(new_tasks))
  /\ UNCHANGED <<fsvars, new_tasks, create_backup, records, io_log, hist, harness>>

Logged(op, p) == Append(io_log, [op |-> op, path |-> p])

\* The read loop of a rewriter on file p, r the outcome of its loop.
ReadStep(p, r) ==
  /\ pc = "read"
  /\ IF ~fs[p].exists
       THEN Abort(Error("FileNotFoundError", p)) /\ UNCHANGED <<records, io_log>>
     ELSE IF ~r.ok
       THEN Abort(Error("JSONDecodeError", p)) /\ records' = <<>> /\ io_log' = Logged("read", p)
     ELSE /\ records' = r.records
          /\ io_log' = Logged("read", p)
          /\ pc' = IF create_backup THEN "backup" ELSE "write"
          /\ UNCHANGED <<exit_code, error>>
  /\ UNCHANGED <<fsvars, call, new_tasks, create_backup, parsed_tasks, hist, harness>>

\* if create_backup: shutil.copy2(p, p.with_suffix('.jsonl.backup'))
BackupStep(p) ==
  /\ pc = "backup"
  /\ fs' = [fs EXCEPT ![BackupOf(p)] = Copy2(fs[p], @)]
  /\ io_log' = Logged("copy", p)
  /\ pc' = "write"
  /\ UNCHANGED <<dir_exists, meta_exists, call, new_tasks, create_backup,
                 parsed_tasks, records, exit_code, error, hist, harness>>

\* The write loop of a rewriter on file p; the orchestrator then makes its
\* next call or, after the last one, returns and the process exits with 0.
WriteStep(p) ==
  /\ pc = "write"
  /\ fs' = [fs EXCEPT ![p] = File(WriteLines(records))]
  /\ io_log' = Logged("write", p)
  /\ records' = <<>>
  /\ IF call < Len(RewriteOrder)
       THEN /\ call' = call + 1
            /\ pc' = "read"
            /\ UNCHANGED <<exit_code, hist>>
       ELSE /\ call' = 0
            /\ pc' = "done"
            /\ exit_code' = 0
            /\ hist' = Append(hist, Snapshot(fs', create_backup))
  /\ UNCHANGED <<dir_exists, meta_exists, new_tasks, create_backup,
                 parsed_tasks, error, harness>>

ReadEpisodesFile ==
  /\ Current = "episodes"
  /\ ReadStep(episodes_file, ReadEpisodes(fs[episodes_file].lines, parsed_tasks))

BackupEpisodesFile == Current = "episodes" /\ BackupStep(episodes_file)

WriteEpisodesFile == Current = "episodes" /\ WriteStep(episodes_file)

ReadTasksFile ==
  /\ Current = "tasks"
  /\ ReadStep(tasks_file, ReadTasks(fs[tasks_file].lines, parsed_tasks))

BackupTasksFile == Current = "tasks" /\ BackupStep(tasks_file)

WriteTasksFile == Current = "tasks" /\ WriteStep(tasks_file)

Next ==
  \/ \E arg \in Arguments, flag \in BOOLEAN : Start(arg, flag)
  \/ Validate
  \/ ReadEpisodesFile
  \/ BackupEpisodesFile
  \/ WriteEpisodesFile
  \/ ReadTasksFile
  \/ BackupTasksFile
  \/ WriteTasksFile

Spec == Init /\ [][Next]_vars

(***************************************************************************)
(* Run after run on one dataset: a dataset with every file in place and    *)
(* every line a record, at most MaxLines lines in all, so that every run   *)
(* whose argument parses succeeds.                                         *)
(***************************************************************************)
InitRuns ==
  /\ dir_exists = TRUE
  /\ meta_exists = TRUE
  /\ \E e \in Contents({EpisodeCanonical, EpisodeCompact}),
        t \in Contents({TaskCanonical, TaskCompact}) :
       /\ Len(e) + Len(t) <= MaxLines
       /\ fs = [p \in Files |-> IF p = episodes_file THEN File(e)
                                ELSE IF p = tasks_file THEN File(t) ELSE NoFile]
  /\ hist = <<Snapshot(fs, FALSE)>>
  /\ Idle
  /\ task_input = <<>> /\ result = Pending

NextRuns ==
  \/ Next
  \/ \E arg \in Arguments, flag \in BOOLEAN : Rerun(arg, flag)

SpecRuns == InitRuns /\ [][NextRuns]_vars

(***************************************************************************)
(* The parser on its own: every string of at most MaxLen characters over   *)
(* Alphabet, and a few longer ones.                                        *)
(***************************************************************************)
Alphabet == {"[", "]", ",", " ", Quote, "a", "c"}

\* 'a, c ,,a'   '["c","a"]'   ' [ "a" , "" ] '   '[{[]}]'   '["a"{[]}]'
LongerInputs ==
  { <<"a", ",", " ", "c", " ", ",", ",", "a">>,
    <<"[", Quote, "c", Quote, ",", Quote, "a", Quote, "]">>,
    <<" ", "[", " ", Quote, "a", Quote, " ", ",", " ", Quote, Quote, " ", "]", " ">>,
    <<"[", "{", "[", "]", "}", "]">>,
    <<"[", "{", "[", "]", "}", ",", "a", "]">> }

Inputs == UNION {[1..n -> Alphabet] : n \in 0..MaxLen} \cup LongerInputs

InitParse ==
  /\ task_input \in Inputs
  /\ result = Pending
  /\ dir_exists = FALSE /\ meta_exists = FALSE
  /\ fs = [p \in Files |-> NoFile]
  /\ hist = <<Snapshot(fs, FALSE)>>
  /\ Idle

CallParse ==
  /\ result = Pending
  /\ result' = parse_task_input(task_input)
  /\ UNCHANGED <<fsvars, pc, call, new_tasks, create_backup, parsed_tasks,
                 records, exit_code, error, io_log, hist, task_input>>

NextParse == CallParse

SpecParse == InitParse /\ [][NextParse]_vars

(***************************************************************************)
(* What the properties below are stated in.                                *)
(***************************************************************************)
\* The files as they were when the current run (the last one, once it is
\* over) started.
Pre == IF pc = "done" THEN hist[Len(hist) - 1].fs ELSE hist[Len(hist)].fs

Did(op, p) == \E i \in 1..Len(io_log) : io_log[i] = [op |-> op, path |-> p]

\* The rewriter of p was called and has returned or raised.
CallEnded(p) == Did("read", p) /\ (Did("write", p) \/ pc = "exit")

RunEnded == pc \in {"exit", "done"}

\* The run got as far as its first rewriter call.
Resolved == RunEnded /\ error.type \notin {"FileNotFoundError", "TypeError"}

IsBlank(line) == \A i \in 1..Len(line) : line[i].c = " "

IsRecord(line) == JsonLoads(line).ok

RecordOf(line) == JsonLoads(line).rec

NonBlank(lines) == SelectSeq(lines, LAMBDA l : ~IsBlank(l))

AllRecords(lines) == \A i \in 1..Len(lines) : IsRecord(lines[i])

HasMalformed(lines) == \E i \in 1..Len(lines) : ~IsBlank(lines[i]) /\ ~IsRecord(lines[i])

\* Record new is record old with field key set to val and nothing else changed.
SameBut(new, old, key, val) ==
  /\ Keys(new) = Keys(old) \cup {key}
  /\ Get(new, key) = val
  /\ \A k \in Keys(old) \ {key} : Get(new, k) = Get(old, k)

\* The lines new hold, record for record, the records of the lines old with
\* field key set to val.
Rewritten(new, old, key, val) ==
  /\ Len(new) = Len(old)
  /\ \A i \in 1..Len(old) :
       IsRecord(new[i]) /\ SameBut(RecordOf(new[i]), RecordOf(old[i]), key, val)

EpisodesBackup == Path("dataset/meta", "episodes", ".jsonl.backup")
TasksBackup == Path("dataset/meta", "tasks", ".jsonl.backup")
BackupPath(p) == IF p = episodes_file THEN EpisodesBackup ELSE TasksBackup

(***************************************************************************)
(* Properties of the rewriters and the orchestrator (under Spec).          *)
(***************************************************************************)

\* C1: for an episodes file of N well-formed record lines (none blank) and a
\* resolved task sequence S, update_episodes_jsonl returns with the file
\* holding exactly N records in the same order, each with tasks equal to S
\* (not merged with the old value) and every other field as it was.
C1_EpisodesRewritten ==
  (CallEnded(episodes_file) /\ AllRecords(Pre[episodes_file].lines))
    => /\ Did("write", episodes_file)
       /\ Rewritten(fs[episodes_file].lines, Pre[episodes_file].lines,
                    "tasks", JList(parsed_tasks))

C1_Witness ==
  /\ CallEnded(episodes_file)
  /\ Pre[episodes_file].lines = <<EpisodeCompact, EpisodeCanonical>>
  /\ Len(parsed_tasks) = 2
  /\ fs[episodes_file].lines # Pre[episodes_file].lines

\* C2: for a tasks file of well-formed records and a resolved task sequence
\* S, update_tasks_jsonl sets task of every record to S[0], or to the empty
\* string when S is empty, keeps the records in order and leaves every other
\* field as it was.
C2_TasksRewritten ==
  (CallEnded(tasks_file) /\ AllRecords(NonBlank(Pre[tasks_file].lines)))
    => /\ Did("write", tasks_file)
       /\ Rewritten(fs[tasks_file].lines, NonBlank(Pre[tasks_file].lines), "task",
                    JStr(IF parsed_tasks = <<>> THEN <<>> ELSE Head(parsed_tasks)))

C2_Witness ==
  /\ CallEnded(tasks_file)
  /\ Pre[tasks_file].lines = <<TaskCompact, TaskCanonical>>
  /\ Len(parsed_tasks) = 2
  /\ parsed_tasks[1] # parsed_tasks[2]

\* C3: with the backup flag set, once a target file has been rewritten its
\* sibling <name>.jsonl.backup exists and holds byte for byte what the target
\* held when the run started; after a complete run that is so for both
\* targets.
C3_BackupIsOriginal ==
  create_backup =>
    /\ \A p \in Targets :
         Did("write", p) => fs[BackupPath(p)] = File(Pre[p].lines)
    /\ pc = "done" => \A p \in Targets : fs[BackupPath(p)] = File(Pre[p].lines)

C3_Witness ==
  /\ pc = "done"
  /\ create_backup
  /\ Len(Pre[episodes_file].lines) = 2
  /\ Len(Pre[tasks_file].lines) = 2
  /\ \A p \in Targets : fs[p].lines # Pre[p].lines

\* The first path the layout checks miss, in the order dataset directory,
\* meta, episodes.jsonl, tasks.jsonl.
Layout == <<dataset_path, meta_dir, episodes_file, tasks_file>>
Missing == {i \in 1..Len(Layout) : ~Exists(Layout[i])}
FirstMissing == Layout[CHOOSE i \in Missing : \A j \in Missing : i <= j]

\* C4: if a layout check fails, the run aborts with a not-found error naming
\* the first missing path, the process exits with code 1, no file is
\* modified and no backup is created; a missing tasks.jsonl is detected
\* before episodes.jsonl is touched.
C4_LayoutFailure ==
  (Missing # {} /\ pc \notin {"idle", "validate"})
    => /\ pc = "exit"
       /\ exit_code = 1
       /\ error = Error("FileNotFoundError", FirstMissing)
       /\ fs = Pre
       /\ io_log = <<>>

C4_Witness ==
  /\ pc = "exit"
  /\ create_backup
  /\ error.path = tasks_file
  /\ Len(fs[episodes_file].lines) = 2

\* C7: both rewriters parse only the non-blank lines and skip the blank ones
\* without an error: a file whose non-blank lines are all well-formed is
\* rewritten, and then holds the records of its non-blank lines, in order.
C7_BlankLinesSkipped ==
  (Resolved /\ \A p \in Targets : AllRecords(NonBlank(Pre[p].lines)))
    => /\ pc = "done"
       /\ Rewritten(fs[episodes_file].lines, NonBlank(Pre[episodes_file].lines),
                    "tasks", JList(parsed_tasks))
       /\ Len(fs[tasks_file].lines) = Len(NonBlank(Pre[tasks_file].lines))

\* The half of C7 the code keeps: the tasks rewriter skips blank lines.
C7_TasksBlankLinesSkipped ==
  (Resolved /\ AllRecords(Pre[episodes_file].lines)
            /\ AllRecords(NonBlank(Pre[tasks_file].lines)))
    => /\ pc = "done"
       /\ Len(fs[tasks_file].lines) = Len(NonBlank(Pre[tasks_file].lines))

\* C8: the episodes file is rewritten before the tasks file is read, backed
\* up or written; so with a well-formed episodes file and a malformed line in
\* the tasks file the run ends in an error with the episodes file carrying
\* the new task sequence and the tasks file as it was.
C8_EpisodesBeforeTasks ==
  /\ \A i \in 1..Len(io_log) :
       io_log[i].path = tasks_file
         => \E j \in 1..(i - 1) : io_log[j] = [op |-> "write", path |-> episodes_file]
  /\ (Resolved /\ AllRecords(Pre[episodes_file].lines)
               /\ HasMalformed(Pre[tasks_file].lines))
       => /\ pc = "exit"
          /\ exit_code = 1
          /\ error = Error("JSONDecodeError", tasks_file)
          /\ Rewritten(fs[episodes_file].lines, Pre[episodes_file].lines,
                       "tasks", JList(parsed_tasks))
          /\ fs[tasks_file] = Pre[tasks_file]

C8_Witness ==
  /\ pc = "exit"
  /\ error = Error("JSONDecodeError", tasks_file)
  /\ Len(Pre[episodes_file].lines) = 2
  /\ fs[episodes_file] # Pre[episodes_file]
  /\ fs[tasks_file] = Pre[tasks_file]

\* C9: a rewriter reads and parses every line before it copies the backup
\* and before it writes; so a target with a line that fails to parse is left
\* byte for byte as it was and gets no backup from that call, backup flag or
\* not.
C9_ParseBeforeWrite ==
  \A p \in Targets :
    /\ \A i \in 1..Len(io_log) :
         (io_log[i].path = p /\ io_log[i].op \in {"copy", "write"})
           => \E j \in 1..(i - 1) : io_log[j] = [op |-> "read", path |-> p]
    /\ (HasMalformed(Pre[p].lines) \/ error = Error("JSONDecodeError", p))
         => /\ fs[p] = Pre[p]
            /\ fs[BackupPath(p)] = Pre[BackupPath(p)]
            /\ ~Did("copy", p) /\ ~Did("write", p)

C9_Witness ==
  /\ pc = "exit"
  /\ create_backup
  /\ error = Error("JSONDecodeError", tasks_file)
  /\ fs[EpisodesBackup].exists
  /\ ~fs[TasksBackup].exists

\* Two or more runs, all complete and all with the backup flag.
BackupRuns ==
  /\ pc = "done"
  /\ Len(hist) >= 3
  /\ \A i \in 2..Len(hist) : hist[i].backup

First == hist[1].fs

IsCanonical(lines) ==
  \A i \in 1..Len(lines) : IsRecord(lines[i]) /\ lines[i] = JsonDumps(RecordOf(lines[i]))

\* C10 as claimed: after two or more successful runs with the backup flag,
\* each backup holds what its target held just before the last run, the
\* output of the run before, and what the target held before the first run
\* is in no file any more.
C10_FirstContentGone ==
  BackupRuns =>
    \A p \in Targets :
      /\ fs[BackupPath(p)] = hist[Len(hist) - 1].fs[p]
      /\ Len(First[p].lines) > 0
           => \A q \in {p, BackupPath(p)} : fs[q].lines # First[p].lines

\* C10 amended: each backup holds the output of the run before the last;
\* what the target held before the first run survives only when it was
\* already, byte for byte, what the rewriter writes.
C10_BackupIsPreviousOutput ==
  BackupRuns =>
    \A p \in Targets :
      /\ fs[BackupPath(p)] = hist[Len(hist) - 1].fs[p]
      /\ (\E q \in {p, BackupPath(p)} : fs[q].lines = First[p].lines)
           => IsCanonical(First[p].lines)

C10_Witness ==
  /\ BackupRuns
  /\ Len(First[episodes_file].lines) > 0
  /\ \A p \in Targets :
       /\ fs[BackupPath(p)].lines # First[p].lines
       /\ fs[BackupPath(p)].lines # fs[p].lines

(***************************************************************************)
(* Properties of parse_task_input (under SpecParse).                       *)
(***************************************************************************)
NonSpace(s) == {i \in 1..Len(s) : s[i] # " "}

Least(S) == CHOOSE x \in S : \A y \in S : x <= y
Greatest(S) == CHOOSE x \in S : \A y \in S : x >= y

\* s without its leading and trailing whitespace.
Trimmed(s) ==
  IF NonSpace(s) = {} THEN <<>> ELSE SubSeq(s, Least(NonSpace(s)), Greatest(NonSpace(s)))

Cuts(s) == {0, Len(s) + 1} \cup {i \in 1..Len(s) : s[i] = ","}

Cut(s, k) == CHOOSE c \in Cuts(s) : Cardinality({d \in Cuts(s) : d < c}) = k - 1

\* The pieces of s between its commas, in order.
Pieces(s) ==
  [k \in 1..(Cardinality(Cuts(s)) - 1) |-> SubSeq(s, Cut(s, k) + 1, Cut(s, k + 1) - 1)]

\* Rule 1 applies: the trimmed input is bracketed and is a list literal of
\* strings.
IsStringList(input) ==
  /\ Len(Trimmed(input)) > 0
  /\ Head(Trimmed(input)) = "["
  /\ Trimmed(input)[Len(Trimmed(input))] = "]"
  /\ literal_eval(Trimmed(input)).exc = "none"
  /\ IsListOfStr(literal_eval(Trimmed(input)).val)

\* The result of the first rule that applies.
ByRules(input) ==
  IF IsStringList(input)
    THEN [i \in 1..Len(literal_eval(Trimmed(input)).val.l) |->
            literal_eval(Trimmed(input)).val.l[i].s]
  ELSE IF \E i \in 1..Len(input) : input[i] = ","
    THEN SelectSeq([k \in 1..Len(Pieces(input)) |-> Trimmed(Pieces(input)[k])],
                   LAMBDA piece : piece # <<>>)
  ELSE <<Trimmed(input)>>

\* C5: for every input string parse_task_input returns the result of the
\* first applicable rule: the bracketed list of strings verbatim, else the
\* trimmed non-empty comma-separated pieces, else the trimmed input alone; a
\* malformed or non-string bracketed literal falls through to the later rules.
C5_FirstApplicableRule ==
  result # Pending => result = Returned(ByRules(task_input))

\* What the code keeps of C5: whenever the call returns, it returns the
\* result of the first applicable rule.
C5_WhenItReturns ==
  result.exc = "none" => result.tasks = ByRules(task_input)

\* C6 as claimed: no element of the returned sequence is the empty string.
C6_NoEmptyElement ==
  result.exc = "none" => \A i \in 1..Len(result.tasks) : result.tasks[i] # <<>>

\* C6 amended: no element of the returned sequence is the empty string,
\* unless the input is empty or all whitespace (the result is [""]) or is a
\* bracketed list of strings, which is returned verbatim.
C6_NoEmptyElementOutsideRule1 ==
  (result.exc = "none" /\ Trimmed(task_input) # <<>> /\ ~IsStringList(task_input))
    => \A i \in 1..Len(result.tasks) : result.tasks[i] # <<>>

C6_Witness ==
  /\ result.exc = "none"
  /\ ~IsStringList(task_input)
  /\ Len(Pieces(task_input)) = 4
  /\ Len(result.tasks) = 2

====
